---- MODULE Spec2Model ----
(***************************************************************************)
(* Weekly intelligence agent: the LangGraph workflow of                    *)
(* src/agents/weekly_intel.py with the collaborators it drives             *)
(* (SourceManager, ContentProcessor, RankingEngine, SummaryGenerator,      *)
(* DatabaseManager).                                                       *)
(*                                                                         *)
(* Texts are TLC strings; a multi-sentence content is the sequence of the  *)
(* pieces that Python's content.split('. ') yields.  A report is a         *)
(* sequence of lines, each a record whose tag names the line.  Scores are  *)
(* integers in thousandths (1000 = 1.0).                                   *)
(***************************************************************************)
EXTENDS Integers, Sequences, FiniteSets, Bags, TLC

----------------------------------------------------------------------------
(* Bounds of the model *)

\* number of registered sources that take part (a prefix of the registry)
NumSources == 3
\* the longest topic list a run is started with
MaxTopics == 2

----------------------------------------------------------------------------
(* Program constants *)

\* ranked_articles[:10] in compose_report and _generate_fallback_summary
TopN == 10
\* ranked_articles[:50] in generate_summary
SummaryLimit == 50
\* trends[:5] / insights[:5]
MaxTrends == 5

\* SourceManager.__init__: the registry, in dict insertion order
Registry ==
    <<"hackernews", "reddit", "twitter", "producthunt", "yc_launches", "techcrunch">>

Sources == 1..NumSources

\* BaseSource.name of the i-th registered source
SourceName(i) == Registry[i]

\* the topic lists a caller passes: the prefixes of this list
TopicPool == <<"AI", "machine learning", "startup funding">>

TopicLists == { SubSeq(TopicPool, 1, n) : n \in 0..MaxTopics }

\* the outcome "fetch_articles raised an Exception"
RAISE == [kind |-> "exception"]

\* a coroutine returned the list value
Return(value) == [kind |-> "value", value |-> value]

\* a task of the gather that has not completed yet
PENDING == [kind |-> "pending"]

----------------------------------------------------------------------------
(* What the providers serve.  hackernews and reddit both link the same     *)
(* url, twitter posts carry no url and no date, and every provider serves  *)
(* the same items whatever the topic, so one url can come back for several *)
(* topics.  A content is the sequence of its pieces between ". ".          *)

\* a datetime: its calendar date (str(dt)[:10]) and its age in hours
Date(date, hours) == [date |-> date, hours_ago |-> hours]

\* published_at is None
NoDate == [date |-> "", hours_ago |-> 0]

Item(title, content, url, author, published, score, comments) ==
    [title |-> title, content |-> content, url |-> url, author |-> author,
     published_at |-> published, score |-> score, comments_count |-> comments]

LongSentence ==
    "Researchers present a long survey of innovation in tech that covers compilers and editors and debuggers and profilers and linters and build systems and package managers and also the history of every one of them in detail from start to end"

LongSentence200 ==
    "Researchers present a long survey of innovation in tech that covers compilers and editors and debuggers and profilers and linters and build systems and package managers and also the history of every o"

WireFeed(i) ==
    CASE i = 1 -> << Item("OpenAI announces GPT launch",
                          <<"The company released a new model for developers everywhere",
                            "It is faster">>,
                          "https://a.io/gpt", "sam", Date("2025-01-06", 1), 120, 60),
                     Item("A study of AI startups", <<>>,
                          "https://github.com/b/study", "ann", Date("2024-12-30", 168), 8, 2) >>
      [] i = 2 -> << Item("GPT launch thread", <<"Discussion of the launch">>,
                          "https://a.io/gpt", "bob", Date("2025-01-05", 24), 900, 150) >>
      [] i = 3 -> << Item("short", <<"a startup raised funding", "b", "c">>,
                          "", "eve", NoDate, 0, 0) >>
      [] i = 4 -> << Item("AI tutorial tool", <<"how to guide">>,
                          "https://c.io/tool", "hal", Date("2025-01-04", 48), 30, 6) >>
      [] i = 5 -> << Item("A study of AI startups", <<>>,
                          "https://github.com/b/study", "yc", Date("2025-01-03", 72), 11, 5) >>
      [] OTHER -> << Item("Innovation paper", <<LongSentence>>,
                          "https://d.io/paper", "tc", Date("2025-01-06", 0), 50, 25) >>

\* BaseSource._standardize_article: the standard record, source := self.name
StandardizeArticle(i, raw) ==
    [title |-> raw.title, content |-> raw.content, url |-> raw.url,
     author |-> raw.author, published_at |-> raw.published_at,
     source |-> SourceName(i), score |-> raw.score,
     comments_count |-> raw.comments_count]

\* what fetch_articles of source i can do for a topic: raise, find nothing,
\* or return its standardized items
FetchOutcomes(i) ==
    { RAISE, Return(<<>>),
      Return([k \in 1..Len(WireFeed(i)) |-> StandardizeArticle(i, WireFeed(i)[k])]) }

----------------------------------------------------------------------------
(* Text primitives.  TLC gives Len and \o on strings; what needs a regular *)
(* expression, a substring search or a slice is tabulated for the texts    *)
(* above from the results of the Python code on them.                      *)

Min(a, b) == IF a < b THEN a ELSE b

Max(a, b) == IF a > b THEN a ELSE b

\* xs[:n]
Take(xs, n) == SubSeq(xs, 1, Min(n, Len(xs)))

\* sep.join(pieces)
RECURSIVE Join(_, _)
Join(pieces, sep) ==
    IF pieces = <<>> THEN ""
    ELSE IF Len(pieces) = 1 THEN pieces[1]
    ELSE pieces[1] \o sep \o Join(Tail(pieces), sep)

\* the content string of an article
ContentText(content) == Join(content, ". ")

\* str.lower()
Lower(t) ==
    CASE t = "OpenAI announces GPT launch" -> "openai announces gpt launch"
      [] t = "A study of AI startups" -> "a study of ai startups"
      [] t = "GPT launch thread" -> "gpt launch thread"
      [] t = "AI tutorial tool" -> "ai tutorial tool"
      [] t = "Innovation paper" -> "innovation paper"
      [] OTHER -> t

\* str.upper()
Upper(t) ==
    CASE t = "hackernews" -> "HACKERNEWS"
      [] t = "reddit" -> "REDDIT"
      [] t = "twitter" -> "TWITTER"
      [] t = "producthunt" -> "PRODUCTHUNT"
      [] t = "yc_launches" -> "YC_LAUNCHES"
      [] t = "techcrunch" -> "TECHCRUNCH"
      [] t = "Unknown" -> "UNKNOWN"
      [] OTHER -> t

\* text[:200]
Head200(t) == IF Len(t) <= 200 THEN t ELSE LongSentence200

\* the words w for which `w in title.lower() + content.lower()` holds, among
\* the trigger words of _detect_content_type and _keyword_relevance_fallback
Substrings(a) ==
    CASE a.title = "OpenAI announces GPT launch" -> {"launch", "announce", "release", "ai"}
      [] a.title = "A study of AI startups" -> {"study", "ai", "startup"}
      [] a.title = "GPT launch thread" -> {"launch"}
      [] a.title = "short" -> {"funding", "raised", "ai", "startup"}
      [] a.title = "AI tutorial tool" -> {"tutorial", "how to", "guide", "ai"}
      [] a.title = "Innovation paper" -> {"research", "paper", "ai", "tech", "innovation"}
      [] OTHER -> {}

\* 'github.com' in url.lower()
IsGithubUrl(url) == url = "https://github.com/b/study"

----------------------------------------------------------------------------
(* ContentProcessor *)

\* ContentProcessor.min_content_length
MinContentLength == 50

\* _prepare_text_for_embedding: title and content (no text here reaches the
\* max_content_length of 10000 at which it is cut)
PrepareTextForEmbedding(a) == a.title \o ". " \o ContentText(a.content)

\* SentenceTransformer.encode: unit vectors, two dimensions standing for 384
Encode(text) ==
    CASE text = "AI" -> <<1, 0>>
      [] text = "AI machine learning" -> <<0, 1>>
      [] text = "AI machine learning startup funding" -> <<0, -1>>
      [] text = PrepareTextForEmbedding([title |-> "OpenAI announces GPT launch",
                    content |-> WireFeed(1)[1].content]) -> <<1, 0>>
      [] text = "A study of AI startups. " -> <<0, 1>>
      [] text = "GPT launch thread. Discussion of the launch" -> <<1, 0>>
      [] text = "short. a startup raised funding. b. c" -> <<-1, 0>>
      [] text = "AI tutorial tool. how to guide" -> <<0, 1>>
      [] OTHER -> <<0, -1>>

\* _extract_keywords: the ten most frequent words of three letters or more
\* that are no stop words
ExtractKeywords(a) ==
    CASE a.title = "OpenAI announces GPT launch" ->
            <<"openai", "announces", "gpt", "launch", "company", "released",
              "new", "model", "developers", "everywhere">>
      [] a.title = "A study of AI startups" -> <<"study", "startups">>
      [] a.title = "GPT launch thread" -> <<"launch", "gpt", "thread", "discussion">>
      [] a.title = "short" -> <<"short", "startup", "raised", "funding">>
      [] a.title = "AI tutorial tool" -> <<"tutorial", "tool", "how", "guide">>
      [] a.title = "Innovation paper" ->
            <<"innovation", "paper", "researchers", "present", "long", "survey",
              "tech", "covers", "compilers", "editors">>
      [] OTHER -> <<>>

\* _extract_entities: capitalized words as companies, then urls
ExtractEntities(a) ==
    CASE a.title = "OpenAI announces GPT launch" ->
            <<[text |-> "The", type |-> "company"], [text |-> "It", type |-> "company"]>>
      [] a.title = "GPT launch thread" -> <<[text |-> "Discussion", type |-> "company"]>>
      [] a.title = "Innovation paper" ->
            <<[text |-> "Innovation", type |-> "company"],
              [text |-> "Researchers", type |-> "company"]>>
      [] OTHER -> <<>>

\* 1.0 in the fixed-point unit of the component scores
One == 10000

\* the score with the bonus of the source given whatever the source is
CalculateQualityScore_AnySource(a) ==
    LET title    == IF Len(a.title) > 10 THEN 2000 ELSE 0
        content  == IF Len(ContentText(a.content)) >= MinContentLength THEN 3000 ELSE 0
        score    == IF a.score > 10 THEN 2000 ELSE 0
        comments == IF a.comments_count > 5 THEN 2000 ELSE 0
    IN  Min(title + content + score + comments + 1000, One)

\* _calculate_quality_score: the sum of the bonuses that apply, capped at 1.0
CalculateQualityScore(a) ==
    LET title    == IF Len(a.title) > 10 THEN 2000 ELSE 0
        content  == IF Len(ContentText(a.content)) >= MinContentLength THEN 3000 ELSE 0
        score    == IF a.score > 10 THEN 2000 ELSE 0
        comments == IF a.comments_count > 5 THEN 2000 ELSE 0
        source   == IF a.source \in {"hackernews", "reddit", "producthunt"} THEN 1000 ELSE 0
    IN  Min(title + content + score + comments + source, One)

\* _detect_content_type: the first rule that matches, in this order
DetectContentType(a) ==
    LET any(words) == \E w \in words : w \in Substrings(a)
    IN  IF any({"launch", "announce", "release"}) THEN "announcement"
        ELSE IF any({"funding", "raised", "investment"}) THEN "funding"
        ELSE IF any({"tutorial", "how to", "guide"}) THEN "tutorial"
        ELSE IF IsGithubUrl(a.url) THEN "code"
        ELSE IF any({"research", "study", "paper"}) THEN "research"
        ELSE "general"

\* enrich_article: a copy of the article with the derived fields added
EnrichArticle(a) ==
    a @@ [embedding     |-> Encode(PrepareTextForEmbedding(a)),
          keywords      |-> ExtractKeywords(a),
          quality_score |-> CalculateQualityScore(a),
          content_type  |-> DetectContentType(a),
          entities      |-> ExtractEntities(a)]

----------------------------------------------------------------------------
(* RankingEngine *)

\* cosine_similarity of two unit vectors, in units of One
CosineSimilarity(u, v) == (u[1] * v[1] + u[2] * v[2]) * One

\* any(rel_kw in keyword.lower() ...) for the keywords of the texts above
IsRelevantKeyword(k) ==
    k \in {"openai", "raised", "startup", "startups", "tech", "innovation"}

\* _keyword_relevance_fallback: matches / 5.0, capped at 1.0
KeywordRelevanceFallback(a) ==
    LET relevant == {"ai", "machine learning", "startup", "tech", "innovation"}
        keywords == IF "keywords" \in DOMAIN a THEN a.keywords ELSE <<>>
        inKeywords == Cardinality({ k \in 1..Len(keywords) : IsRelevantKeyword(keywords[k]) })
        inText == Cardinality(relevant \cap Substrings(a))
    IN  Min(One, ((inKeywords + inText) * One) \div 5)

\* _calculate_relevance_score: (similarity + 1) / 2 clamped to [0, 1]
CalculateRelevanceScore(a, topic_embedding) ==
    IF "embedding" \notin DOMAIN a \/ a.embedding = <<>>
    THEN KeywordRelevanceFallback(a)
    ELSE Max(0, Min(One, (CosineSimilarity(topic_embedding, a.embedding) + One) \div 2))

\* the engagement score without the caps min(1.0, ...)
CalculateEngagementScore_NoCap(a) ==
    LET norm(x, d) == (x * One) \div d
        ns == CASE a.source = "hackernews" -> norm(a.score, 100)
                [] a.source = "reddit"     -> norm(a.score, 1000)
                [] a.source = "twitter"    -> norm(a.score, 500)
                [] OTHER                   -> norm(a.score, 100)
        nc == CASE a.source = "hackernews" -> norm(a.comments_count, 50)
                [] a.source = "reddit"     -> norm(a.comments_count, 100)
                [] a.source = "twitter"    -> norm(a.comments_count, 50)
                [] OTHER                   -> norm(a.comments_count, 25)
    IN  (7 * ns + 3 * nc) \div 10

\* _calculate_engagement_score: 0.7 * score + 0.3 * comments, each divided by
\* the constant of the source and capped at 1.0
CalculateEngagementScore(a) ==
    LET norm(x, d) == Min(One, (x * One) \div d)
        ns == CASE a.source = "hackernews" -> norm(a.score, 100)
                [] a.source = "reddit"     -> norm(a.score, 1000)
                [] a.source = "twitter"    -> norm(a.score, 500)
                [] OTHER                   -> norm(a.score, 100)
        nc == CASE a.source = "hackernews" -> norm(a.comments_count, 50)
                [] a.source = "reddit"     -> norm(a.comments_count, 100)
                [] a.source = "twitter"    -> norm(a.comments_count, 50)
                [] OTHER                   -> norm(a.comments_count, 25)
    IN  (7 * ns + 3 * nc) \div 10

\* exp(-hours / 168) in units of One
ExpDecay(hours) ==
    CASE hours = 0 -> 10000
      [] hours = 1 -> 9941
      [] hours = 24 -> 8669
      [] hours = 48 -> 7515
      [] hours = 72 -> 6514
      [] OTHER -> 3679

\* _calculate_recency_score: 0.5 without a date, else the decay clamped
CalculateRecencyScore(a) ==
    IF a.published_at = NoDate THEN One \div 2
    ELSE Max(0, Min(One, ExpDecay(a.published_at.hours_ago)))

\* _calculate_scores
CalculateScores(a, topic_embedding) ==
    [relevance  |-> CalculateRelevanceScore(a, topic_embedding),
     quality    |-> IF "quality_score" \in DOMAIN a THEN a.quality_score ELSE One \div 2,
     engagement |-> CalculateEngagementScore(a),
     recency    |-> CalculateRecencyScore(a)]

\* the weighted sum of rank_articles; the weights are tenths, so the sum is
\* the ranking score in units of 10 * One
FinalScore(scores) ==
    4 * scores.relevance + 3 * scores.quality + 2 * scores.engagement + 1 * scores.recency

\* the copy of the article with its score and breakdown
WithScore(a, topic_embedding) ==
    a @@ [ranking_score     |-> FinalScore(CalculateScores(a, topic_embedding)),
          ranking_breakdown |-> CalculateScores(a, topic_embedding)]

\* the sort without reverse=True
RECURSIVE InsertByScore_Ascending(_, _)
InsertByScore_Ascending(sorted, a) ==
    IF sorted = <<>> THEN <<a>>
    ELSE IF Head(sorted).ranking_score <= a.ranking_score
         THEN <<Head(sorted)>> \o InsertByScore_Ascending(Tail(sorted), a)
         ELSE <<a>> \o sorted

\* sorted(..., key=ranking_score, reverse=True): stable, so records of equal
\* score keep their input order
RECURSIVE InsertByScore(_, _)
InsertByScore(sorted, a) ==
    IF sorted = <<>> THEN <<a>>
    ELSE IF Head(sorted).ranking_score >= a.ranking_score
         THEN <<Head(sorted)>> \o InsertByScore(Tail(sorted), a)
         ELSE <<a>> \o sorted

RECURSIVE SortedByScore(_)
SortedByScore(xs) ==
    IF xs = <<>> THEN <<>>
    ELSE InsertByScore(SortedByScore(SubSeq(xs, 1, Len(xs) - 1)), xs[Len(xs)])

\* rank_articles
RankArticles(articles, topics) ==
    IF articles = <<>> THEN <<>>
    ELSE LET topic_embedding == Encode(Join(topics, " "))
         IN  SortedByScore([k \in 1..Len(articles) |-> WithScore(articles[k], topic_embedding)])

\* get_top_articles with ranked_articles[1:limit + 1]
GetTopArticles_SkipFirst(ranked_articles, limit) ==
    SubSeq(ranked_articles, 2, Min(limit + 1, Len(ranked_articles)))

\* get_top_articles: ranked_articles[:limit], for a limit that is not negative
GetTopArticles(ranked_articles, limit) == Take(ranked_articles, limit)

\* filter_by_threshold: the articles whose ranking_score (0 when missing) is
\* at least the threshold, in the order of the list
FilterByThreshold(ranked_articles, threshold) ==
    SelectSeq(ranked_articles,
              LAMBDA a : (IF "ranking_score" \in DOMAIN a THEN a.ranking_score ELSE 0)
                            >= threshold)

----------------------------------------------------------------------------
(* SummaryGenerator: the deterministic parts *)

\* _get_period_info, for the week the run takes place in
PeriodInfo == [start_date |-> "2024-12-30", end_date |-> "2025-01-06"]

\* _extract_summary: the first two sentences, or the first 200 characters
ExtractSummary(a) ==
    IF a.content = <<>> THEN "Article about " \o Lower(a.title)
    ELSE IF Len(a.content) >= 2
         THEN Join(Take(a.content, 2), ". ") \o "."
         ELSE IF Len(ContentText(a.content)) > 200
              THEN Head200(ContentText(a.content)) \o "..."
              ELSE ContentText(a.content)

\* the sentence the rule chain of _extract_key_quote settles on (quoted text,
\* attribution phrase, action verb, descriptive sentence, paragraph, first
\* 200 characters), "" when no sentence is a meaningful quote
QuoteCandidate(a) ==
    CASE a.title = "OpenAI announces GPT launch" -> a.content[1]
      [] a.title = "Innovation paper" -> Head200(ContentText(a.content))
      [] OTHER -> ""

\* _extract_key_quote: the title when there is no content or no candidate
ExtractKeyQuote(a) ==
    IF a.content = <<>> THEN a.title
    ELSE IF QuoteCandidate(a) # "" THEN QuoteCandidate(a)
    ELSE a.title

\* f"{x:.2f}" of a ranking score: hundredths
Format2f(score) == (score + 500) \div 1000

\* one entry of the sources section
SourceEntry(i, a) ==
    [tag |-> "source_entry", index |-> i, title |-> a.title,
     source |-> Upper(a.source), author |-> a.author,
     published |-> IF a.published_at = NoDate THEN "Unknown" ELSE a.published_at.date,
     score |-> a.score, comments |-> a.comments_count,
     quality |-> Format2f(IF "ranking_score" \in DOMAIN a THEN a.ranking_score ELSE 0),
     url |-> a.url, summary |-> ExtractSummary(a), key_quote |-> ExtractKeyQuote(a)]

\* _generate_sources_section: nothing for no article, else the heading and
\* one numbered entry per article
GenerateSourcesSection(articles) ==
    IF articles = <<>> THEN <<>>
    ELSE <<[tag |-> "sources_heading"]>>
         \o [i \in 1..Len(articles) |-> SourceEntry(i, articles[i])]

\* max(counts, key=counts.get) over a dict filled in the order of xs: the
\* first value of xs whose count is the greatest
RECURSIVE Count(_, _)
Count(xs, v) ==
    IF xs = <<>> THEN 0
    ELSE (IF Head(xs) = v THEN 1 ELSE 0) + Count(Tail(xs), v)

MostCommon(xs) ==
    IF xs = <<>> THEN "N/A"
    ELSE LET best == CHOOSE i \in 1..Len(xs) :
                        /\ \A j \in 1..Len(xs) : Count(xs, xs[j]) <= Count(xs, xs[i])
                        /\ \A j \in 1..(i - 1) : Count(xs, xs[j]) < Count(xs, xs[i])
         IN  xs[best]

\* _generate_fallback_summary
GenerateFallbackSummary(ranked_articles, topics) ==
    LET top_articles == Take(ranked_articles, TopN)
        types   == [k \in 1..Len(top_articles) |->
                      IF "content_type" \in DOMAIN top_articles[k]
                      THEN top_articles[k].content_type ELSE "general"]
        sources == [k \in 1..Len(top_articles) |-> top_articles[k].source]
    IN  [topics |-> topics,
         period |-> PeriodInfo,
         article_count |-> Len(ranked_articles),
         top_articles |-> top_articles,
         summaries_by_group |->
             [g \in {"general"} |-> <<"Basic summary - API key required for detailed analysis">>],
         key_trends |->
             << "Most common content type: " \o MostCommon(types),
                "Most active source: " \o MostCommon(sources),
                "Total articles analyzed: " \o ToString(Len(ranked_articles)) >>,
         strategic_insights |->
             << "OpenAI API key required for detailed analysis",
                "Configure API keys to enable full intelligence features",
                "Basic article ranking and filtering is working" >>]

\* one line of a report
Line(tag, text) == [tag |-> tag, text |-> text]

Bullets(texts) == [k \in 1..Len(texts) |-> Line("bullet", texts[k])]

\* the basic report with a sources section over all ranked articles
GenerateEnhancedBasicReport_NoCap(summary, ranked_articles, topics) ==
    << Line("title", "WEEKLY INTELLIGENCE REPORT"),
       [tag |-> "executive_summary", topics |-> Join(topics, ", "),
        count |-> Len(ranked_articles),
        from |-> summary.period.start_date, to |-> summary.period.end_date],
       Line("heading", "KEY TRENDS:") >>
    \o Bullets(summary.key_trends)
    \o << Line("heading", "STRATEGIC INSIGHTS:") >>
    \o Bullets(summary.strategic_insights)
    \o << Line("newline", "") >>
    \o GenerateSourcesSection(ranked_articles)

\* _generate_enhanced_basic_report: title, executive summary, the trends and
\* insights of the summary, a newline and the sources section of the top
\* articles
GenerateEnhancedBasicReport(summary, ranked_articles, topics) ==
    LET period == IF "period" \in DOMAIN summary THEN summary.period
                  ELSE [start_date |-> "the past week", end_date |-> "today"]
        trends == IF "key_trends" \in DOMAIN summary THEN summary.key_trends ELSE <<>>
        insights == IF "strategic_insights" \in DOMAIN summary
                    THEN summary.strategic_insights ELSE <<>>
    IN  << Line("title", "WEEKLY INTELLIGENCE REPORT"),
           [tag |-> "executive_summary", topics |-> Join(topics, ", "),
            count |-> Len(ranked_articles),
            from |-> period.start_date, to |-> period.end_date],
           Line("heading", "KEY TRENDS:") >>
        \o Bullets(trends)
        \o << Line("heading", "STRATEGIC INSIGHTS:") >>
        \o Bullets(insights)
        \o << Line("newline", "") >>
        \o GenerateSourcesSection(Take(ranked_articles, TopN))

----------------------------------------------------------------------------
(* SummaryGenerator: the generative parts *)

\* what the model may answer, as the lines of response.content
LLMResponses ==
    { <<>>,
      << "# Findings", "Agents are everywhere", "", "Funding slows",
         "Editors add AI", "Open models catch up", "Tooling consolidates",
         "Benchmarks saturate" >> }

\* _extract_trends / _generate_insights: the non-blank lines of the answer
\* that are no headings, at most five of them
ParseList(content) ==
    Take(SelectSeq(content, LAMBDA l : l # "" /\ l # "# Findings"), MaxTrends)

\* the groups of _group_articles, in the order of the dict
Groups == <<"announcements", "funding", "research", "tutorials", "general">>

\* _group_articles: the articles of a group; a content type that is no key
\* of the dict falls into 'general'
GroupArticles(articles, group) ==
    LET type(a) == IF "content_type" \in DOMAIN a THEN a.content_type ELSE "general"
        key(a) == IF \E g \in 1..Len(Groups) : Groups[g] = type(a)
                  THEN type(a) ELSE "general"
    IN  SelectSeq(articles, LAMBDA a : key(a) = group)

\* the groups generate_summary calls _summarize_article_group for
NonEmptyGroups(articles) ==
    SelectSeq(Groups, LAMBDA g : GroupArticles(articles, g) # <<>>)

\* the llm.ainvoke calls of generate_summary: one per group that has
\* articles, one for the trends, one for the insights
SummaryCalls(ranked_articles) ==
    Len(NonEmptyGroups(Take(ranked_articles, SummaryLimit))) + 2

\* generate_summary with every call answered by content
GenerateLLMSummary(ranked_articles, topics, content) ==
    LET top_articles == Take(ranked_articles, SummaryLimit)
        groups == NonEmptyGroups(top_articles)
    IN  [topics |-> topics,
         period |-> PeriodInfo,
         article_count |-> Len(ranked_articles),
         top_articles |-> Take(top_articles, TopN),
         summaries_by_group |->
             [g \in { groups[k] : k \in 1..Len(groups) } |-> content],
         key_trends |-> ParseList(content),
         strategic_insights |-> ParseList(content)]

\* the generative path with the five articles of the prompt's top list
ComposeLLMReport_TopFive(content, ranked_articles) ==
    [k \in 1..Len(content) |-> Line("llm", content[k])]
    \o << Line("newline", ""), Line("newline", "") >>
    \o GenerateSourcesSection(Take(ranked_articles, 5))

\* compose_report on the generative path: the answer, a blank line and the
\* sources section of the top articles
ComposeLLMReport(content, ranked_articles) ==
    [k \in 1..Len(content) |-> Line("llm", content[k])]
    \o << Line("newline", ""), Line("newline", "") >>
    \o GenerateSourcesSection(Take(ranked_articles, TopN))

----------------------------------------------------------------------------
(* DatabaseManager *)

\* the attributes of the mapped class Article: its columns and Base.metadata
ArticleAttributes ==
    {"id", "title", "content", "url", "author", "source", "published_at",
     "score", "comments_count", "embedding", "keywords", "entities", "tags",
     "quality_score", "ranking_score", "content_type", "article_metadata",
     "processed_at", "created_at", "updated_at", "metadata"}

\* the columns of a row that the model keeps
ArticleRow(id, a) ==
    [id |-> id, url |-> a.url, title |-> a.title, source |-> a.source,
     ranking_score |-> IF "ranking_score" \in DOMAIN a THEN a.ranking_score ELSE 0]

\* the query that never finds a row
FindByUrl_NeverFound(rows, url) == 0

\* session.query(Article).filter_by(url=url).first(): the index of the row,
\* 0 for None
FindByUrl(rows, url) ==
    IF \E k \in 1..Len(rows) : rows[k].url = url
    THEN CHOOSE k \in 1..Len(rows) :
            rows[k].url = url /\ \A j \in 1..(k - 1) : rows[j].url # url
    ELSE 0

\* setattr(existing, key, value) for every key of the article that is an
\* attribute of the row
UpdateRow(row, a) ==
    [row EXCEPT !.url = a.url, !.title = a.title, !.source = a.source,
                !.ranking_score = IF "ranking_score" \in DOMAIN a
                                  THEN a.ranking_score ELSE row.ranking_score]

\* Article(**article_data), session.add and session.flush succeed: every key
\* is an attribute of Article (else the constructor raises TypeError) and
\* published_at, which is not nullable, is set (else the flush raises
\* IntegrityError)
CanInsert(a) ==
    /\ DOMAIN a \subseteq ArticleAttributes
    /\ a.published_at # NoDate

\* the loop of store_articles from article k on.  committed is the table as
\* the last commit left it, session the table as the session sees it (with
\* its flushed inserts and its pending updates), ids the list stored_ids.
\* An existing row is updated; a new row is inserted if it can be; if not,
\* the exception is caught, the session is rolled back and the loop
\* continues.
RECURSIVE StoreLoop(_, _, _, _, _)
StoreLoop(committed, session, ids, articles, k) ==
    IF k > Len(articles) THEN [session |-> session, ids |-> ids]
    ELSE LET a == articles[k]
             existing == FindByUrl(session, a.url)
         IN  IF existing # 0
             THEN StoreLoop(committed,
                            [session EXCEPT ![existing] = UpdateRow(session[existing], a)],
                            Append(ids, session[existing].id), articles, k + 1)
             ELSE IF CanInsert(a)
             THEN StoreLoop(committed,
                            Append(session, ArticleRow(Len(session) + 1, a)),
                            Append(ids, Len(session) + 1), articles, k + 1)
             ELSE StoreLoop(committed, committed, ids, articles, k + 1)

\* store_articles: the table after the final commit and the returned ids
StoreArticles(rows, articles) ==
    LET end == StoreLoop(rows, rows, <<>>, articles, 1)
    IN  [articles |-> end.session, ids |-> end.ids]

\* store_report: the row added to the reports table; its id is returned
ReportRow(reports, content, metadata) ==
    [id |-> Len(reports) + 1,
     content |-> content,
     topics |-> IF "topics" \in DOMAIN metadata THEN metadata.topics ELSE <<>>,
     article_count |-> IF "ingestion_count" \in DOMAIN metadata
                       THEN metadata.ingestion_count ELSE 0]

\* the articles table before the first run: empty, or holding a row stored
\* by an earlier collection
InitialArticleTables ==
    { <<>>,
      << [id |-> 1, url |-> "https://a.io/gpt", title |-> "GPT launch thread",
          source |-> "reddit", ranking_score |-> 0] >> }

----------------------------------------------------------------------------
(* State *)

VARIABLES
    apiKey,     \* OPENAI_API_KEY is set in the process environment
    llm,        \* SummaryGenerator.llm: "None" or "ChatOpenAI"
    pc,         \* the node of the graph that is executing, or idle/done/raised
    state,      \* WeeklyIntelState of the run
    topicIdx,   \* _ingest_node: position of the topic loop
    acc,        \* _ingest_node: the local list raw_articles
    gather,     \* fetch_all_sources: "idle" or "running"
    outcomes,   \* what fetch_articles of each source did for the current topic
    results,    \* asyncio.gather: the result slot of each task
    fetched,    \* the values fetch_all_sources has returned to _ingest_node
    errorLog,   \* bag of the logger.error events of the current fetch_all_sources
    trace,      \* the handlers invoked so far, in order of invocation
    llmCalls,   \* number of llm.ainvoke calls made in the run
    paths,      \* what _init_llm returned in generate_summary / compose_report
    db,         \* the reports and articles tables
    caller,     \* what run_weekly_intel gave back to its caller
    call,       \* the last direct call of a library function: its name,
                \* the call that made its input, its input, its argument
                \* and its result
    runs,       \* the runs of run_weekly_intel that the module-level agent
                \* of the API serves at the same time: for each its node,
                \* its WeeklyIntelState and what its collaborators gave it
    http        \* the responses of the API to the client of the run: to its
                \* POST /reports/generate and to its GET /reports/{id}

vars == <<apiKey, llm, pc, state, topicIdx, acc, gather, outcomes, results,
          fetched, errorLog, trace, llmCalls, paths, db, caller, call, runs,
          http>>

\* no library function has been called directly
NoCall ==
    [fn |-> "none", after |-> "none", input |-> <<>>, arg |-> <<>>, output |-> <<>>]

\* the API serves no request
NoRuns == <<>>

\* no response has been sent
NoExchange == [post |-> [status |-> 0], get |-> [status |-> 0]]

\* a dict with no key
EmptyDict == [k \in {} |-> 0]

\* WeeklyIntelState(topics=topics): every other field at its default
WeeklyIntelState(topics) ==
    [topics |-> topics, raw_articles |-> <<>>, enriched_articles |-> <<>>,
     ranked_articles |-> <<>>, summary |-> EmptyDict, report |-> <<>>,
     metadata |-> EmptyDict]

\* WeeklyIntelAgent._build_graph: set_entry_point and the add_edge calls
EntryPoint == "ingest"

END == "done"

\* the graph with the edge enrich -> summarize instead of enrich -> rank
Edge_SkipRank(node) ==
    CASE node = "ingest"    -> "enrich"
      [] node = "enrich"    -> "summarize"
      [] node = "rank"      -> "summarize"
      [] node = "summarize" -> "compose"
      [] node = "compose"   -> "deliver"
      [] node = "deliver"   -> "done"

Edge(node) ==
    CASE node = "ingest"    -> "enrich"
      [] node = "enrich"    -> "rank"
      [] node = "rank"      -> "summarize"
      [] node = "summarize" -> "compose"
      [] node = "compose"   -> "deliver"
      [] node = "deliver"   -> END

\* the graph runtime: the handler of node returned, the next node is invoked
Advance(node) ==
    /\ pc' = Edge(node)
    /\ trace' = IF Edge(node) = END THEN trace ELSE Append(trace, Edge(node))

\* a graph runtime that answers the exception of a handler by invoking the
\* graph again from its entry point
Raise_Retry(node, what) ==
    /\ pc' = EntryPoint
    /\ caller' = caller

\* a handler raised: graph.ainvoke and run_weekly_intel propagate it
Raise(node, what) ==
    /\ pc' = "raised"
    /\ caller' = [kind |-> "raised", at |-> node, error |-> what]

Init ==
    /\ apiKey \in BOOLEAN
    /\ llm = "None"
    /\ pc = "idle"
    /\ state = WeeklyIntelState(<<>>)
    /\ topicIdx = 1
    /\ acc = <<>>
    /\ gather = "idle"
    /\ outcomes = [i \in Sources |-> PENDING]
    /\ results = [i \in Sources |-> PENDING]
    /\ fetched = <<>>
    /\ errorLog = EmptyBag
    /\ trace = <<>>
    /\ llmCalls = 0
    /\ paths = EmptyDict
    /\ \E rows \in InitialArticleTables : db = [reports |-> <<>>, articles |-> rows]
    /\ caller = [kind |-> "none"]
    /\ call = NoCall
    /\ runs = NoRuns
    /\ http = NoExchange

\* run_weekly_intel(topics): a fresh state, the graph starts at its entry point
RunWeeklyIntel ==
    /\ pc = "idle"
    /\ \E topics \in TopicLists : state' = WeeklyIntelState(topics)
    /\ pc' = EntryPoint
    /\ trace' = <<EntryPoint>>
    /\ topicIdx' = 1
    /\ acc' = <<>>
    /\ UNCHANGED <<apiKey, llm, gather, outcomes, results, fetched, errorLog,
                   llmCalls, paths, db, caller>>
    /\ UNCHANGED <<call, runs, http>>

----------------------------------------------------------------------------
(* SourceManager.fetch_all_sources, called once per topic by _ingest_node *)

\* one logger.error event
LogEvent(event, i, topic) == [event |-> event, source |-> SourceName(i), topic |-> topic]

\* the wrapper without its try/except: the exception ends the task
FetchWithErrorHandling_NoCatch(o) == o

\* _fetch_with_error_handling: the value the task of a source ends with
FetchWithErrorHandling(o) == IF o = RAISE THEN Return(<<>>) ELSE o

\* isinstance(result, Exception)
IsException(result) == result = RAISE

\* result or []
OrEmpty(result) == result.value

\* the merge loop with `all_articles = articles` for `all_articles.extend`
RECURSIVE MergeResults_Overwrite(_, _)
MergeResults_Overwrite(res, i) ==
    IF i > NumSources THEN <<>>
    ELSE IF IsException(res[i]) \/ MergeResults_Overwrite(res, i + 1) # <<>>
         THEN MergeResults_Overwrite(res, i + 1)
         ELSE OrEmpty(res[i])

\* the merge loop of fetch_all_sources over the gathered results, in
\* registration order: exceptions are skipped, lists are extended
RECURSIVE MergeResults(_, _)
MergeResults(res, i) ==
    IF i > NumSources THEN <<>>
    ELSE IF IsException(res[i]) THEN MergeResults(res, i + 1)
    ELSE OrEmpty(res[i]) \o MergeResults(res, i + 1)

\* the "Source fetch failed" events the merge loop logs
MergeLog(res, topic) ==
    LET failed == { i \in Sources : IsException(res[i]) }
    IN  [e \in { LogEvent("Source fetch failed", i, topic) : i \in failed } |-> 1]

\* the topic loop of _ingest_node calls fetch_all_sources(topic): one task per
\* registered source is handed to asyncio.gather
FetchAllStart ==
    /\ pc = "ingest"
    /\ gather = "idle"
    /\ topicIdx <= Len(state.topics)
    /\ gather' = "running"
    /\ outcomes' = [i \in Sources |-> PENDING]
    /\ results' = [i \in Sources |-> PENDING]
    /\ errorLog' = EmptyBag
    /\ UNCHANGED <<apiKey, llm, pc, state, topicIdx, acc, fetched,
                   trace, llmCalls, paths, db, caller>>
    /\ UNCHANGED <<call, runs, http>>

\* the task of source i completes, in any order relative to its siblings
FetchComplete(i) ==
    /\ pc = "ingest"
    /\ gather = "running"
    /\ results[i] = PENDING
    /\ \E o \in FetchOutcomes(i) :
          /\ outcomes' = [outcomes EXCEPT ![i] = o]
          /\ results' = [results EXCEPT ![i] = FetchWithErrorHandling(o)]
          /\ errorLog' =
                IF o = RAISE /\ ~IsException(FetchWithErrorHandling(o))
                THEN errorLog (+) SetToBag({LogEvent("Source error", i, state.topics[topicIdx])})
                ELSE errorLog
    /\ UNCHANGED <<apiKey, llm, pc, state, topicIdx, acc, gather, fetched,
                   trace, llmCalls, paths, db, caller>>
    /\ UNCHANGED <<call, runs, http>>

\* fetch_all_sources going on as soon as one task has ended (a wait for the
\* first completion in place of gather): the tasks still running give nothing
FetchAllReturn_FirstCompleted ==
    /\ pc = "ingest"
    /\ gather = "running"
    /\ \E i \in Sources : results[i] # PENDING
    /\ LET done == [i \in Sources |->
                      IF results[i] = PENDING THEN Return(<<>>) ELSE results[i]]
           all_articles == MergeResults(done, 1)
       IN  /\ fetched' = Append(fetched, all_articles)
           /\ acc' = acc \o all_articles
    /\ errorLog' = errorLog
    /\ topicIdx' = topicIdx + 1
    /\ gather' = "idle"
    /\ UNCHANGED <<apiKey, llm, pc, state, outcomes, results, trace, llmCalls,
                   paths, db, caller>>
    /\ UNCHANGED <<call, runs, http>>

\* every task is done: gather returns, the results are merged and returned
\* to _ingest_node, which extends raw_articles
FetchAllReturn ==
    /\ pc = "ingest"
    /\ gather = "running"
    /\ \A i \in Sources : results[i] # PENDING
    /\ LET all_articles == MergeResults(results, 1)
       IN  /\ fetched' = Append(fetched, all_articles)
           /\ acc' = acc \o all_articles
    /\ errorLog' = errorLog (+) MergeLog(results, state.topics[topicIdx])
    /\ topicIdx' = topicIdx + 1
    /\ gather' = "idle"
    /\ UNCHANGED <<apiKey, llm, pc, state, outcomes, results, trace, llmCalls,
                   paths, db, caller>>
    /\ UNCHANGED <<call, runs, http>>

\* _ingest_node returns: raw_articles and the ingestion count are written;
\* the locals of the node and of its fetch_all_sources calls are gone
IngestReturn ==
    /\ pc = "ingest"
    /\ gather = "idle"
    /\ topicIdx > Len(state.topics)
    /\ state' = [state EXCEPT
                    !.raw_articles = acc,
                    !.metadata = ("ingestion_count" :> Len(acc)) @@ state.metadata]
    /\ Advance("ingest")
    /\ topicIdx' = 1
    /\ acc' = <<>>
    /\ outcomes' = [i \in Sources |-> PENDING]
    /\ results' = [i \in Sources |-> PENDING]
    /\ fetched' = <<>>
    /\ errorLog' = EmptyBag
    /\ UNCHANGED <<apiKey, llm, gather, llmCalls, paths, db, caller>>
    /\ UNCHANGED <<call, runs, http>>

----------------------------------------------------------------------------
(* The other nodes *)

\* which record, if any, makes the embedding model raise in _enrich_node
EnrichFailures(articles) == 0..Len(articles)

\* _enrich_node over an enrich_article without its article.copy(): the keys
\* are added to the raw record itself
EnrichNode_InPlace ==
    /\ pc = "enrich"
    /\ LET enriched == [k \in 1..Len(state.raw_articles) |->
                          EnrichArticle(state.raw_articles[k])]
       IN  state' = [state EXCEPT !.raw_articles = enriched,
                                  !.enriched_articles = enriched]
    /\ Advance("enrich")
    /\ UNCHANGED <<apiKey, llm, topicIdx, acc, gather, outcomes, results,
                   fetched, errorLog, llmCalls, paths, db, caller>>
    /\ UNCHANGED <<call, runs, http>>

\* _enrich_node: every raw article is enriched in turn; enrich_article is
\* not guarded, so an exception of the embedding model ends the run
EnrichNode ==
    /\ pc = "enrich"
    /\ \E failing \in EnrichFailures(state.raw_articles) :
          IF failing = 0
          THEN /\ state' = [state EXCEPT !.enriched_articles =
                     [k \in 1..Len(state.raw_articles) |-> EnrichArticle(state.raw_articles[k])]]
               /\ Advance("enrich")
               /\ UNCHANGED caller
          ELSE /\ Raise("enrich", "embedding")
               /\ UNCHANGED <<state, trace>>
    /\ UNCHANGED <<apiKey, llm, topicIdx, acc, gather, outcomes, results,
                   fetched, errorLog, llmCalls, paths, db>>
    /\ UNCHANGED <<call, runs, http>>

\* _rank_node
RankNode ==
    /\ pc = "rank"
    /\ state' = [state EXCEPT !.ranked_articles =
                    RankArticles(state.enriched_articles, state.topics)]
    /\ Advance("rank")
    /\ UNCHANGED <<apiKey, llm, topicIdx, acc, gather, outcomes, results,
                   fetched, errorLog, llmCalls, paths, db, caller>>
    /\ UNCHANGED <<call, runs, http>>

\* _init_llm without its `return False` for a missing key
InitLLM_NoKeyCheck == TRUE

\* _init_llm: True when the client exists or can be created from the key
InitLLM == llm # "None" \/ apiKey

\* an _init_llm that drops a client it finds
LLMAfterInit_Reset == IF llm = "None" /\ apiKey THEN "ChatOpenAI" ELSE "None"

\* the client after _init_llm
LLMAfterInit == IF llm = "None" /\ apiKey THEN "ChatOpenAI" ELSE llm

\* _summarize_node: the fallback summary without a client; with one, the
\* calls of generate_summary, any of which may raise
SummarizeNode ==
    /\ pc = "summarize"
    /\ llm' = LLMAfterInit
    /\ paths' = ("summarize" :> InitLLM) @@ paths
    /\ IF ~InitLLM
       THEN /\ state' = [state EXCEPT !.summary =
                  GenerateFallbackSummary(state.ranked_articles, state.topics)]
            /\ Advance("summarize")
            /\ UNCHANGED <<llmCalls, caller>>
       ELSE \E content \in LLMResponses :
            \E failing \in 0..SummaryCalls(state.ranked_articles) :
               IF failing = 0
               THEN /\ state' = [state EXCEPT !.summary =
                          GenerateLLMSummary(state.ranked_articles, state.topics, content)]
                    /\ llmCalls' = llmCalls + SummaryCalls(state.ranked_articles)
                    /\ Advance("summarize")
                    /\ UNCHANGED caller
               ELSE /\ llmCalls' = llmCalls + failing
                    /\ Raise("summarize", "llm")
                    /\ UNCHANGED <<state, trace>>
    /\ UNCHANGED <<apiKey, topicIdx, acc, gather, outcomes, results, fetched,
                   errorLog, db>>
    /\ UNCHANGED <<call, runs, http>>

\* _compose_node: the prompt is prepared, then the basic report without a
\* client; with one, the answer of the model (or its exception) and the
\* sources section
ComposeNode ==
    /\ pc = "compose"
    /\ llm' = LLMAfterInit
    /\ paths' = ("compose" :> InitLLM) @@ paths
    /\ IF ~InitLLM
       THEN /\ state' = [state EXCEPT !.report =
                  GenerateEnhancedBasicReport(state.summary, state.ranked_articles, state.topics)]
            /\ Advance("compose")
            /\ UNCHANGED <<llmCalls, caller>>
       ELSE /\ llmCalls' = llmCalls + 1
            /\ \E answer \in { Return(content) : content \in LLMResponses } \cup {RAISE} :
                  IF answer # RAISE
                  THEN /\ state' = [state EXCEPT !.report =
                             ComposeLLMReport(answer.value, state.ranked_articles)]
                       /\ Advance("compose")
                       /\ UNCHANGED caller
                  ELSE /\ Raise("compose", "llm")
                       /\ UNCHANGED <<state, trace>>
    /\ UNCHANGED <<apiKey, topicIdx, acc, gather, outcomes, results, fetched,
                   errorLog, db>>
    /\ UNCHANGED <<call, runs, http>>

\* what the database does in _deliver_node: it works, or the commit of
\* store_articles raises, or store_report raises
DeliverFailures(ranked_articles) ==
    {"none", "store_report"} \cup (IF ranked_articles # <<>> THEN {"store_articles"} ELSE {})

\* _deliver_node and the return of run_weekly_intel: the ranked articles are
\* stored if there are any, the report is stored, its id is written to the
\* metadata, and the report goes back to the caller
DeliverNode ==
    /\ pc = "deliver"
    /\ \E failure \in DeliverFailures(state.ranked_articles) :
          LET stored == IF state.ranked_articles # <<>>
                        THEN StoreArticles(db.articles, state.ranked_articles).articles
                        ELSE db.articles
              metadata == [topics |-> state.topics,
                           article_count |-> Len(state.ranked_articles)] @@ state.metadata
              row == ReportRow(db.reports, state.report, metadata)
          IN  CASE failure = "store_articles" ->
                     /\ Raise("deliver", "store_articles")
                     /\ UNCHANGED <<state, trace, db>>
                [] failure = "store_report" ->
                     /\ db' = [db EXCEPT !.articles = stored]
                     /\ Raise("deliver", "store_report")
                     /\ UNCHANGED <<state, trace>>
                [] OTHER ->
                     /\ db' = [articles |-> stored, reports |-> Append(db.reports, row)]
                     /\ state' = [state EXCEPT !.metadata =
                                     ("report_id" :> row.id) @@ state.metadata]
                     /\ Advance("deliver")
                     /\ caller' = [kind |-> "returned", report |-> state.report]
    /\ UNCHANGED <<apiKey, llm, topicIdx, acc, gather, outcomes, results,
                   fetched, errorLog, llmCalls, paths>>
    /\ UNCHANGED <<call, runs, http>>

Next ==
    \/ RunWeeklyIntel
    \/ FetchAllStart
    \/ \E i \in Sources : FetchComplete(i)
    \/ FetchAllReturn
    \/ IngestReturn
    \/ EnrichNode
    \/ RankNode
    \/ SummarizeNode
    \/ ComposeNode
    \/ DeliverNode

Spec == Init /\ [][Next]_vars

----------------------------------------------------------------------------
(* Properties of the workflow *)

StageOrder == <<"ingest", "enrich", "rank", "summarize", "compose", "deliver">>

Stages == { StageOrder[k] : k \in 1..Len(StageOrder) }

\* C1: the handlers run in the order ingest, enrich, rank, summarize,
\* compose, deliver: the handlers invoked so far are always a prefix of that
\* order (the run starts at ingest, no handler is skipped or invoked twice),
\* the handler that is executing is the last one invoked, and the run is
\* done only when all six have run, deliver last.
C1_StagesInOrder ==
    /\ trace = SubSeq(StageOrder, 1, Len(trace))
    /\ pc \in Stages => trace # <<>> /\ pc = trace[Len(trace)]
    /\ pc = "done" => trace = StageOrder
    /\ pc = "idle" => trace = <<>>

C1_Witness == pc = "done" /\ trace = StageOrder /\ state.ranked_articles # <<>>

\* the node _ingest_node has returned
IngestDone == pc \notin {"idle", "ingest"}

\* the run had topics to fetch and its ingestion yielded no record
NoData == IngestDone /\ state.topics # <<>> /\ state.raw_articles = <<>>

\* C2: when Ingest yields no record at all, no handler after ingest is
\* ever invoked in that run.
C2_NoDataSkipsStages ==
    NoData => trace = <<"ingest">>

\* C3: a run whose ingestion yields zero records returns no report to its
\* caller and writes no report to storage.
C3_NoReportWithoutRecords ==
    NoData => (caller.kind # "returned" /\ db.reports = <<>>)

\* fetch_all_sources has returned for the current topic and _ingest_node
\* has not moved on yet
FetchAllReturned == pc = "ingest" /\ gather = "idle" /\ fetched # <<>>

LastFetched == fetched[Len(fetched)]

Failed == { i \in Sources : outcomes[i] = RAISE }

Succeeded == { i \in Sources : outcomes[i] \notin {RAISE, PENDING} }

\* C4: a source whose fetch_articles raises is caught in its own task: the
\* task ends with an empty list, the tasks of the other sources end with
\* what their source returned, every task has completed when the call
\* returns, no record of a failed source is in the merge, and the run never
\* ends with an exception raised in ingest.
C4_FailureIsolated ==
    /\ \A i \in Failed : results[i] = Return(<<>>)
    /\ \A i \in Succeeded : results[i] = outcomes[i]
    /\ FetchAllReturned =>
          /\ Failed \cup Succeeded = Sources
          /\ \A i \in Failed : \A k \in 1..Len(LastFetched) :
                LastFetched[k].source # SourceName(i)
    /\ caller.kind = "raised" => caller.at # "ingest"

C4_Witness ==
    /\ FetchAllReturned
    /\ outcomes[1] = RAISE
    /\ outcomes[NumSources] = RAISE
    /\ \E i \in Succeeded : outcomes[i].value # <<>>
    /\ LastFetched # <<>>

\* the number of records equal to r that the successful sources returned
RECURSIVE ReturnedCount(_, _)
ReturnedCount(i, r) ==
    IF i > NumSources THEN 0
    ELSE (IF i \in Succeeded THEN Count(outcomes[i].value, r) ELSE 0)
         + ReturnedCount(i + 1, r)

ReturnedRecords == UNION { { outcomes[i].value[k] : k \in 1..Len(outcomes[i].value) } : i \in Succeeded }

\* C5: when at least one source succeeds, fetch_all_sources returns the
\* records of the successful sources as a multiset, no more and no less,
\* and one error is logged per failed source.
C5_UnionOfSuccessful ==
    (FetchAllReturned /\ Succeeded # {}) =>
        /\ \A r \in ReturnedRecords \cup { LastFetched[k] : k \in 1..Len(LastFetched) } :
              Count(LastFetched, r) = ReturnedCount(1, r)
        /\ BagCardinality(errorLog) = Cardinality(Failed)
        /\ BagToSet(errorLog) =
              { LogEvent("Source error", i, state.topics[topicIdx - 1]) : i \in Failed }

C5_Witness ==
    /\ FetchAllReturned
    /\ Cardinality(Failed) = 1
    /\ Len(LastFetched) >= 2
    /\ \A i \in Succeeded : outcomes[i].value # <<>>

----------------------------------------------------------------------------
(* Summarize and Compose on ranked lists longer than the top list *)

\* the longest ranked list handed to Summarize
MaxRanked == 11

\* the records the lists are made of: with two sentences, with no content,
\* with three sentences and no url, with one sentence of over 200 characters
ComposePool ==
    << StandardizeArticle(1, WireFeed(1)[1]), StandardizeArticle(1, WireFeed(1)[2]),
       StandardizeArticle(3, WireFeed(3)[1]), StandardizeArticle(6, WireFeed(6)[1]) >>

\* n copies of x
Copies(x, n) == [k \in 1..n |-> x]

\* the raw list with counts[i] copies of the i-th record of the pool
RECURSIVE RawList(_, _)
RawList(counts, i) ==
    IF i > Len(ComposePool) THEN <<>>
    ELSE Copies(ComposePool[i], counts[i]) \o RawList(counts, i + 1)

RECURSIVE Sum(_, _)
Sum(counts, i) == IF i > Len(counts) THEN 0 ELSE counts[i] + Sum(counts, i + 1)

\* a run that has ingested, enriched and ranked, about to summarize
InitCompose ==
    /\ apiKey \in BOOLEAN
    /\ llm = "None"
    /\ pc = "summarize"
    /\ \E counts \in [1..Len(ComposePool) -> 0..MaxRanked] :
          /\ Sum(counts, 1) <= MaxRanked
          /\ LET topics == <<"AI">>
                 raw == RawList(counts, 1)
                 enriched == [k \in 1..Len(raw) |-> EnrichArticle(raw[k])]
             IN  state = [WeeklyIntelState(topics) EXCEPT
                             !.raw_articles = raw,
                             !.enriched_articles = enriched,
                             !.ranked_articles = RankArticles(enriched, topics),
                             !.metadata = ("ingestion_count" :> Len(raw))]
    /\ topicIdx = 1
    /\ acc = <<>>
    /\ gather = "idle"
    /\ outcomes = [i \in Sources |-> PENDING]
    /\ results = [i \in Sources |-> PENDING]
    /\ fetched = <<>>
    /\ errorLog = EmptyBag
    /\ trace = <<"ingest", "enrich", "rank", "summarize">>
    /\ llmCalls = 0
    /\ paths = EmptyDict
    /\ db = [reports |-> <<>>, articles |-> <<>>]
    /\ caller = [kind |-> "none"]
    /\ call = NoCall
    /\ runs = NoRuns
    /\ http = NoExchange

NextCompose ==
    \/ SummarizeNode
    \/ ComposeNode

SpecCompose == InitCompose /\ [][NextCompose]_vars

----------------------------------------------------------------------------
(* Properties of the fallback and of the report *)

\* _compose_node has returned
ComposeDone == pc \in {"deliver", "done"} \/ (pc = "raised" /\ caller.at = "deliver")

\* C6: without an API key Summarize and Compose both take the fallback
\* path: the model is never called and no client is created, neither stage
\* raises, the summary is the fallback summary, and the report that Compose
\* leaves (and that a run that is done returns) is the non-empty basic report.
C6_FallbackWithoutKey ==
    ~apiKey =>
        /\ llmCalls = 0
        /\ llm = "None"
        /\ \A n \in DOMAIN paths : paths[n] = FALSE
        /\ caller.kind = "raised" => caller.at \notin {"summarize", "compose"}
        /\ ComposeDone =>
              /\ state.summary.strategic_insights[1] = "OpenAI API key required for detailed analysis"
              /\ state.report # <<>>
              /\ state.report[1] = Line("title", "WEEKLY INTELLIGENCE REPORT")
        /\ pc = "done" => caller.kind = "returned" /\ caller.report # <<>>

C6_Witness ==
    /\ ~apiKey
    /\ pc = "done"
    /\ state.ranked_articles # <<>>
    /\ DOMAIN paths = {"summarize", "compose"}

\* C7: a failing call of the model never ends the run: no run ends with an
\* exception of the model.
C7_LLMFailureNeverAborts ==
    caller.kind = "raised" => caller.error # "llm"

\* the lines of a report that belong to its sources section
IsSourcesLine(l) == l.tag \in {"sources_heading", "source_entry"}

\* C8: on the generative path and on the fallback path alike, the report
\* ends with the sources section of the ten top-ranked records, and no line
\* before it belongs to a sources section.
C8_SameSourcesSection ==
    ComposeDone =>
        LET section == GenerateSourcesSection(Take(state.ranked_articles, TopN))
            report  == state.report
            before  == Len(report) - Len(section)
        IN  /\ before >= 0
            /\ SubSeq(report, before + 1, Len(report)) = section
            /\ \A k \in 1..before : ~IsSourcesLine(report[k])
            /\ paths.compose => report[before].tag = "newline"

C8_Witness ==
    /\ ComposeDone
    /\ paths.compose
    /\ Len(state.ranked_articles) > TopN
    /\ state.report[Len(state.report)].tag = "source_entry"
    /\ state.report[1].tag = "llm"

\* C9: without an API key the report is not empty and its sources section
\* has one entry for each of the first min(10, n) ranked records, in rank
\* order, each with the number, title, url and extracted summary of its
\* record.
C9_FallbackSourcesSection ==
    (ComposeDone /\ ~apiKey) =>
        LET ranked  == state.ranked_articles
            entries == SelectSeq(state.report, LAMBDA l : l.tag = "source_entry")
        IN  /\ state.report # <<>>
            /\ Len(entries) = Min(10, Len(ranked))
            /\ \A k \in 1..Len(entries) :
                  /\ entries[k].index = k
                  /\ entries[k].title = ranked[k].title
                  /\ entries[k].url = ranked[k].url
                  /\ entries[k].author = ranked[k].author
                  /\ entries[k].summary = ExtractSummary(ranked[k])
            /\ Len(ranked) > 0 =>
                  \E h \in 1..Len(state.report) : state.report[h].tag = "sources_heading"

C9_Witness ==
    /\ ComposeDone
    /\ ~apiKey
    /\ Len(state.ranked_articles) = MaxRanked
    /\ \E k \in 1..TopN : state.report[Len(state.report) - TopN + k].summary
                            = LongSentence200 \o "..."
    /\ \E k \in 1..TopN : state.report[Len(state.report) - TopN + k].summary
                            = "a startup raised funding. b."

\* the records handed to Summarize, Compose and storage
RankDone == pc \in {"summarize", "compose", "deliver", "done"}

\* C10: the ranked records hold at most one record per non-empty url.
C10_OneRecordPerUrl ==
    RankDone =>
        \A j, k \in 1..Len(state.ranked_articles) :
            (j # k /\ state.ranked_articles[j].url # "") =>
                state.ranked_articles[j].url # state.ranked_articles[k].url

----------------------------------------------------------------------------
(* The library functions called directly on a list of records: the         *)
(* deduplication of generate_full_report.py, ContentProcessor,             *)
(* RankingEngine and DatabaseManager.store_articles                        *)

\* the longest list handed to a library function
MaxInput == 3

\* the records the lists are made of: two records of different sources with
\* the same url, a record with no url and no date, two records that differ
\* in their url only, and a record whose url ends with a blank
LibraryPool ==
    << StandardizeArticle(1, WireFeed(1)[1]),
       StandardizeArticle(2, WireFeed(2)[1]),
       StandardizeArticle(3, WireFeed(3)[1]),
       StandardizeArticle(4, WireFeed(4)[1]),
       [StandardizeArticle(4, WireFeed(4)[1]) EXCEPT !.url = "https://b.io/tool"],
       [StandardizeArticle(1, WireFeed(1)[1]) EXCEPT !.url = "https://a.io/gpt "] >>

\* the lists of at most MaxInput records of the pool
LibraryInputs ==
    UNION { [1..n -> { LibraryPool[k] : k \in 1..Len(LibraryPool) }] : n \in 0..MaxInput }

\* article.get('url', '')
GetUrl(a) == IF "url" \in DOMAIN a THEN a.url ELSE ""

\* the loop with `url in seen_urls` for `url not in seen_urls`
RECURSIVE DedupeLoop_KeepSeen(_, _, _)
DedupeLoop_KeepSeen(all_articles, k, seen_urls) ==
    IF k > Len(all_articles) THEN <<>>
    ELSE LET article == all_articles[k]
             url == GetUrl(article)
         IN  IF url = "" \/ url \in seen_urls
             THEN <<article>> \o DedupeLoop_KeepSeen(all_articles, k + 1, seen_urls)
             ELSE DedupeLoop_KeepSeen(all_articles, k + 1, seen_urls \cup {url})

\* the deduplication loop of generate_full_report.py from article k on: an
\* article whose url is not empty and not yet seen is kept and its url is
\* recorded, an article without url is kept, any other one is dropped
RECURSIVE DedupeLoop(_, _, _)
DedupeLoop(all_articles, k, seen_urls) ==
    IF k > Len(all_articles) THEN <<>>
    ELSE LET article == all_articles[k]
             url == GetUrl(article)
         IN  IF url # "" /\ url \notin seen_urls
             THEN <<article>> \o DedupeLoop(all_articles, k + 1, seen_urls \cup {url})
             ELSE IF url = ""
             THEN <<article>> \o DedupeLoop(all_articles, k + 1, seen_urls)
             ELSE DedupeLoop(all_articles, k + 1, seen_urls)

\* unique_articles for all_articles
Dedupe(all_articles) == DedupeLoop(all_articles, 1, {})

\* a list of records is at hand, no function has been called on it yet
InitLibrary ==
    /\ apiKey \in BOOLEAN
    /\ llm = "None"
    /\ pc = "idle"
    /\ state = WeeklyIntelState(<<>>)
    /\ topicIdx = 1
    /\ acc = <<>>
    /\ gather = "idle"
    /\ outcomes = [i \in Sources |-> PENDING]
    /\ results = [i \in Sources |-> PENDING]
    /\ fetched = <<>>
    /\ errorLog = EmptyBag
    /\ trace = <<>>
    /\ llmCalls = 0
    /\ paths = EmptyDict
    /\ \E rows \in InitialArticleTables : db = [reports |-> <<>>, articles |-> rows]
    /\ caller = [kind |-> "none"]
    /\ \E xs \in LibraryInputs : call = [NoCall EXCEPT !.output = xs]
    /\ runs = NoRuns
    /\ http = NoExchange

\* a call of a library function: nothing of the workflow changes
LibraryCall(fn, input, arg, output) ==
    /\ call' = [fn |-> fn, after |-> call.fn, input |-> input, arg |-> arg,
                output |-> output]
    /\ UNCHANGED <<apiKey, llm, pc, state, topicIdx, acc, gather, outcomes,
                   results, fetched, errorLog, trace, llmCalls, paths, caller,
                   runs, http>>

\* the deduplication, on the fetched list or on its own result
DedupeCall ==
    /\ call.fn \in {"none", "dedupe"}
    /\ LibraryCall("dedupe", call.output, <<>>, Dedupe(call.output))
    /\ UNCHANGED db

\* ContentProcessor.enrich_article on every record of the list
EnrichCall ==
    /\ call.fn \in {"none", "dedupe"}
    /\ LibraryCall("enrich", call.output, <<>>,
                   [k \in 1..Len(call.output) |-> EnrichArticle(call.output[k])])
    /\ UNCHANGED db

\* RankingEngine.rank_articles on a list of raw or of enriched records
RankCall ==
    /\ call.fn \in {"none", "dedupe", "enrich"}
    /\ \E topics \in TopicLists :
          LibraryCall("rank", call.output, [topics |-> topics],
                      RankArticles(call.output, topics))
    /\ UNCHANGED db

\* the limits and thresholds of the post-filters; a score of 1.0 is 10 * One
Limits == 0..(MaxInput + 1)

Thresholds == {0, 5 * One, 6 * One, 10 * One}

\* RankingEngine.get_top_articles on a ranked list
GetTopCall ==
    /\ call.fn \in {"rank", "get_top", "filter"}
    /\ \E limit \in Limits :
          LibraryCall("get_top", call.output, [limit |-> limit],
                      GetTopArticles(call.output, limit))
    /\ UNCHANGED db

\* RankingEngine.filter_by_threshold on a ranked list
FilterCall ==
    /\ call.fn \in {"rank", "get_top", "filter"}
    /\ \E threshold \in Thresholds :
          LibraryCall("filter", call.output, [threshold |-> threshold],
                      FilterByThreshold(call.output, threshold))
    /\ UNCHANGED db

\* DatabaseManager.store_articles on the list at hand, or once more on the
\* list it has just stored
StoreCall ==
    LET articles == IF call.fn = "store_articles" THEN call.input ELSE call.output
        stored == StoreArticles(db.articles, articles)
    IN  /\ LibraryCall("store_articles", articles, <<>>, stored.ids)
        /\ db' = [db EXCEPT !.articles = stored.articles]

NextLibrary ==
    \/ DedupeCall
    \/ EnrichCall
    \/ RankCall
    \/ GetTopCall
    \/ FilterCall
    \/ StoreCall

SpecLibrary == InitLibrary /\ [][NextLibrary]_vars

----------------------------------------------------------------------------
(* Properties of the deduplication *)

\* str.strip() of a url
Strip(url) == IF url = "https://a.io/gpt " THEN "https://a.io/gpt" ELSE url

\* the positions of xs that hold the first record of a url under the
\* identity key(_), or a record without url
FirstSeen(xs, key(_)) ==
    { k \in 1..Len(xs) :
        key(xs[k]) = "" \/ \A j \in 1..(k - 1) : key(xs[j]) # key(xs[k]) }

\* ys is xs restricted to the positions in kept, in the order of xs
IsRestriction(ys, xs, kept) ==
    /\ Len(ys) = Cardinality(kept)
    /\ \A n \in 1..Len(ys) :
          ys[n] = xs[CHOOSE k \in kept : Cardinality({ j \in kept : j < k }) = n - 1]

\* C11: the deduplication keeps, in input order, exactly the first record of
\* every non-empty trimmed url and every record whose url is empty or
\* missing.
C11_DedupeByTrimmedUrl ==
    call.fn = "dedupe" =>
        IsRestriction(call.output, call.input,
                      FirstSeen(call.input, LAMBDA a : Strip(GetUrl(a))))

\* C12: the deduplication is idempotent and never returns more records than
\* it was given.
C12_DedupeIdempotent ==
    call.fn = "dedupe" =>
        /\ Dedupe(call.output) = call.output
        /\ Len(call.output) <= Len(call.input)

C12_Witness ==
    /\ call.fn = "dedupe"
    /\ Len(call.input) = 3
    /\ Len(call.output) = 2
    /\ call.output[1].url = ""

----------------------------------------------------------------------------
(* Properties of the ranking *)

\* a ranked record without what rank_articles added to it
Unscored(a) == [f \in DOMAIN a \ {"ranking_score", "ranking_breakdown"} |-> a[f]]

\* the scores do not increase along the list
NonIncreasing(ranked) ==
    \A k \in 1..(Len(ranked) - 1) : ranked[k].ranking_score >= ranked[k + 1].ranking_score

\* C13: rank_articles returns a permutation of its input, every record with
\* its ranking_score and breakdown attached and otherwise unchanged, in
\* non-increasing order of ranking_score.
C13_RankIsSortedPermutation ==
    call.fn = "rank" =>
        /\ Len(call.output) = Len(call.input)
        /\ \E p \in Permutations(1..Len(call.input)) :
              \A k \in 1..Len(call.input) :
                 /\ DOMAIN call.output[k] =
                       DOMAIN call.input[p[k]] \cup {"ranking_score", "ranking_breakdown"}
                 /\ Unscored(call.output[k]) = call.input[p[k]]
        /\ NonIncreasing(call.output)

C13_Witness ==
    /\ call.fn = "rank"
    /\ Len(call.input) = 3
    /\ call.output[1].ranking_score > call.output[2].ranking_score
    /\ call.output[2].ranking_score > call.output[3].ranking_score
    /\ Unscored(call.output[1]) = call.input[3]
    /\ Unscored(call.output[3]) = call.input[1]

\* the place of a url in the lexical order of the urls of the pool
UrlOrder(url) ==
    CASE url = "" -> 0
      [] url = "https://a.io/gpt" -> 1
      [] url = "https://a.io/gpt " -> 2
      [] url = "https://b.io/tool" -> 3
      [] url = "https://c.io/tool" -> 4
      [] url = "https://d.io/paper" -> 5
      [] OTHER -> 6

\* a comes before b under the tie-break: published earlier, or at the same
\* time with a url that is not lexically greater
TieBreak(a, b) ==
    \/ /\ a.published_at # NoDate
       /\ b.published_at # NoDate
       /\ a.published_at.hours_ago > b.published_at.hours_ago
    \/ /\ a.published_at = b.published_at
       /\ UrlOrder(a.url) <= UrlOrder(b.url)

\* C14: records of equal ranking_score are ordered by earlier published_at,
\* then by lexical url order, so rank_articles returns the same list for
\* every permutation of its input.
C14_TiesBrokenByDateThenUrl ==
    call.fn = "rank" =>
        /\ \A j, k \in 1..Len(call.output) :
              (j < k /\ call.output[j].ranking_score = call.output[k].ranking_score)
                 => TieBreak(call.output[j], call.output[k])
        /\ \A p \in Permutations(1..Len(call.input)) :
              RankArticles([k \in 1..Len(call.input) |-> call.input[p[k]]],
                           call.arg.topics) = call.output

\* C15: every component score of a ranked record lies in [0, 1], and its
\* ranking_score is 0.4 relevance + 0.3 quality + 0.2 engagement + 0.1
\* recency of the components in its breakdown and lies in [0, 1].
C15_ScoreIsWeightedSumInRange ==
    call.fn = "rank" =>
        \A k \in 1..Len(call.output) :
           LET a == call.output[k]
               b == a.ranking_breakdown
           IN  /\ DOMAIN b = {"relevance", "quality", "engagement", "recency"}
               /\ \A c \in DOMAIN b : 0 <= b[c] /\ b[c] <= One
               /\ a.ranking_score =
                     4 * b.relevance + 3 * b.quality + 2 * b.engagement + 1 * b.recency
               /\ 0 <= a.ranking_score /\ a.ranking_score <= 10 * One

C15_Witness ==
    /\ call.fn = "rank"
    /\ \E k \in 1..Len(call.output) : call.output[k].ranking_breakdown.engagement = One
    /\ \E k \in 1..Len(call.output) : call.output[k].ranking_breakdown.relevance = 0
    /\ \E k \in 1..Len(call.output) : call.output[k].ranking_breakdown.relevance = One

\* C16: get_top_articles returns the first min(n, len) records of its list
\* and filter_by_threshold the records whose ranking_score is at least the
\* threshold, both in the order of the list and with the records as they
\* are in it; the list each is called on is the one the call before left.
C16_PostFiltersArePure ==
    /\ [](call.fn = "get_top" =>
            /\ Len(call.output) = Min(call.arg.limit, Len(call.input))
            /\ \A k \in 1..Len(call.output) : call.output[k] = call.input[k])
    /\ [](call.fn = "filter" =>
            IsRestriction(call.output, call.input,
                { k \in 1..Len(call.input) :
                    call.input[k].ranking_score >= call.arg.threshold }))
    /\ [][call'.fn \in {"get_top", "filter"} => call'.input = call.output]_vars

C16_Witness ==
    /\ call.fn = "filter"
    /\ call.after = "get_top"
    /\ Len(call.input) = 2
    /\ Len(call.output) = 1
    /\ call.output[1] = call.input[1]

----------------------------------------------------------------------------
(* Properties of failures in Enrich and Deliver *)

----------------------------------------------------------------------------
(* Properties of store_articles *)

\* no two rows of the table have the same url
UniqueUrls(rows) ==
    \A j, k \in 1..Len(rows) : j # k => rows[j].url # rows[k].url

\* C19: the articles table never holds two rows with the same url, also
\* after a list with the same url twice; and storing a list once more
\* leaves the table as the first call left it: rows are updated, none is
\* added.
C19_StoreArticlesIdempotentUpsert ==
    /\ [](UniqueUrls(db.articles))
    /\ [](call.fn = "store_articles" =>
            StoreArticles(db.articles, call.input).articles = db.articles)
    /\ [][(call.fn = "store_articles" /\ call'.fn = "store_articles")
             => db' = db]_vars

C19_Witness ==
    /\ call.fn = "store_articles"
    /\ call.after = "store_articles"
    /\ Len(call.input) = 3
    /\ call.input[1].url = call.input[2].url
    /\ call.input[1].source # call.input[2].source
    /\ Len(db.articles) = 2
    /\ db.articles[1].source = call.input[2].source
    /\ db.articles[2].url = call.input[3].url

----------------------------------------------------------------------------
(* Two requests POST /reports/generate served at the same time by the      *)
(* module-level agent of the API.  A run gives way to the other one where  *)
(* a node awaits a collaborator and between nodes; a node is one step,     *)
(* its reads and writes of the shared client and tables included.          *)

\* the topics of the two requests
ConcurrentTopics == << <<"AI">>, <<"machine learning">> >>

RunIds == DOMAIN ConcurrentTopics

\* a request that has not started its run: the state that run_weekly_intel
\* will create for it, nothing fetched, no answer of the model
NewRun(topics) ==
    [pc |-> "idle", state |-> WeeklyIntelState(topics), fetched |-> <<>>,
     answers |-> [summarize |-> PENDING, compose |-> PENDING],
     caller |-> [kind |-> "none"]]

\* one state object that every run works on
StateOf_Shared(r) == runs[1].state

\* the state object the graph hands to the nodes of run r
StateOf(r) == runs[r].state

\* the concatenation of lists
RECURSIVE Flatten(_)
Flatten(lists) == IF lists = <<>> THEN <<>> ELSE Head(lists) \o Flatten(Tail(lists))

\* what the sources can do for one topic
OutcomeVectors == { o \in [Sources -> UNION { FetchOutcomes(i) : i \in Sources }] :
                      \A i \in Sources : o[i] \in FetchOutcomes(i) }

InitConcurrent ==
    /\ apiKey \in BOOLEAN
    /\ llm = "None"
    /\ pc = "idle"
    /\ state = WeeklyIntelState(<<>>)
    /\ topicIdx = 1
    /\ acc = <<>>
    /\ gather = "idle"
    /\ outcomes = [i \in Sources |-> PENDING]
    /\ results = [i \in Sources |-> PENDING]
    /\ fetched = <<>>
    /\ errorLog = EmptyBag
    /\ trace = <<>>
    /\ llmCalls = 0
    /\ paths = EmptyDict
    /\ db = [reports |-> <<>>, articles |-> <<>>]
    /\ caller = [kind |-> "none"]
    /\ call = NoCall
    /\ runs = [r \in RunIds |-> NewRun(ConcurrentTopics[r])]
    /\ http = NoExchange

\* a step of run r: the workflow variables of the single run stay as they are
RunStep(r, node) ==
    /\ runs[r].pc = node
    /\ UNCHANGED <<apiKey, pc, state, topicIdx, acc, gather, outcomes, results,
                   fetched, errorLog, trace, llmCalls, paths, caller, call,
                   http>>

\* the handler of node returned the state st
RunAdvance(r, node, st) == [runs[r] EXCEPT !.pc = Edge(node), !.state = st]

\* the handler of node raised
RunRaise(r, node, what) ==
    [runs[r] EXCEPT !.pc = "raised",
                    !.caller = [kind |-> "raised", at |-> node, error |-> what]]

\* the request arrives: run_weekly_intel starts the graph
ConcurrentRequest(r) ==
    /\ RunStep(r, "idle")
    /\ runs' = [runs EXCEPT ![r].pc = EntryPoint]
    /\ UNCHANGED <<llm, db>>

\* _ingest_node of run r
ConcurrentIngest(r) ==
    /\ RunStep(r, "ingest")
    /\ \E o \in [1..Len(StateOf(r).topics) -> OutcomeVectors] :
          LET lists == [t \in 1..Len(StateOf(r).topics) |->
                          MergeResults([i \in Sources |-> FetchWithErrorHandling(o[t][i])], 1)]
              raw == Flatten(lists)
              st == [StateOf(r) EXCEPT
                        !.raw_articles = raw,
                        !.metadata = ("ingestion_count" :> Len(raw)) @@ StateOf(r).metadata]
          IN  runs' = [runs EXCEPT ![r] = [RunAdvance(r, "ingest", st) EXCEPT !.fetched = lists]]
    /\ UNCHANGED <<llm, db>>

\* _enrich_node of run r
ConcurrentEnrich(r) ==
    /\ RunStep(r, "enrich")
    /\ \E failing \in EnrichFailures(StateOf(r).raw_articles) :
          runs' = [runs EXCEPT ![r] =
             IF failing = 0
             THEN RunAdvance(r, "enrich", [StateOf(r) EXCEPT !.enriched_articles =
                     [k \in 1..Len(StateOf(r).raw_articles) |->
                         EnrichArticle(StateOf(r).raw_articles[k])]])
             ELSE RunRaise(r, "enrich", "embedding")]
    /\ UNCHANGED <<llm, db>>

\* _rank_node of run r
ConcurrentRank(r) ==
    /\ RunStep(r, "rank")
    /\ runs' = [runs EXCEPT ![r] =
          RunAdvance(r, "rank", [StateOf(r) EXCEPT !.ranked_articles =
             RankArticles(StateOf(r).enriched_articles, StateOf(r).topics)])]
    /\ UNCHANGED <<llm, db>>

\* _summarize_node of run r, on the client all runs share
ConcurrentSummarize(r) ==
    /\ RunStep(r, "summarize")
    /\ llm' = LLMAfterInit
    /\ IF ~InitLLM
       THEN runs' = [runs EXCEPT ![r] =
               RunAdvance(r, "summarize", [StateOf(r) EXCEPT !.summary =
                  GenerateFallbackSummary(StateOf(r).ranked_articles, StateOf(r).topics)])]
       ELSE \E answer \in { Return(content) : content \in LLMResponses } \cup {RAISE} :
               runs' = [runs EXCEPT ![r] =
                  IF answer # RAISE
                  THEN [RunAdvance(r, "summarize", [StateOf(r) EXCEPT !.summary =
                           GenerateLLMSummary(StateOf(r).ranked_articles,
                                              StateOf(r).topics, answer.value)])
                           EXCEPT !.answers.summarize = answer]
                  ELSE RunRaise(r, "summarize", "llm")]
    /\ UNCHANGED db

\* _compose_node of run r
ConcurrentCompose(r) ==
    /\ RunStep(r, "compose")
    /\ llm' = LLMAfterInit
    /\ IF ~InitLLM
       THEN runs' = [runs EXCEPT ![r] =
               RunAdvance(r, "compose", [StateOf(r) EXCEPT !.report =
                  GenerateEnhancedBasicReport(StateOf(r).summary,
                     StateOf(r).ranked_articles, StateOf(r).topics)])]
       ELSE \E answer \in { Return(content) : content \in LLMResponses } \cup {RAISE} :
               runs' = [runs EXCEPT ![r] =
                  IF answer # RAISE
                  THEN [RunAdvance(r, "compose", [StateOf(r) EXCEPT !.report =
                           ComposeLLMReport(answer.value, StateOf(r).ranked_articles)])
                           EXCEPT !.answers.compose = answer]
                  ELSE RunRaise(r, "compose", "llm")]
    /\ UNCHANGED db

\* _deliver_node of run r and the return of run_weekly_intel, on the tables
\* all runs share
ConcurrentDeliver(r) ==
    /\ RunStep(r, "deliver")
    /\ \E failure \in DeliverFailures(StateOf(r).ranked_articles) :
          LET st == StateOf(r)
              stored == IF st.ranked_articles # <<>>
                        THEN StoreArticles(db.articles, st.ranked_articles).articles
                        ELSE db.articles
              metadata == [topics |-> st.topics,
                           article_count |-> Len(st.ranked_articles)] @@ st.metadata
              row == ReportRow(db.reports, st.report, metadata)
          IN  CASE failure = "store_articles" ->
                     /\ runs' = [runs EXCEPT ![r] = RunRaise(r, "deliver", "store_articles")]
                     /\ UNCHANGED db
                [] failure = "store_report" ->
                     /\ runs' = [runs EXCEPT ![r] = RunRaise(r, "deliver", "store_report")]
                     /\ db' = [db EXCEPT !.articles = stored]
                [] OTHER ->
                     /\ runs' = [runs EXCEPT ![r] =
                           [RunAdvance(r, "deliver", [st EXCEPT !.metadata =
                                          ("report_id" :> row.id) @@ st.metadata])
                              EXCEPT !.caller = [kind |-> "returned", report |-> st.report]]]
                     /\ db' = [articles |-> stored, reports |-> Append(db.reports, row)]
    /\ UNCHANGED llm

NextConcurrent ==
    \E r \in RunIds :
       \/ ConcurrentRequest(r)
       \/ ConcurrentIngest(r)
       \/ ConcurrentEnrich(r)
       \/ ConcurrentRank(r)
       \/ ConcurrentSummarize(r)
       \/ ConcurrentCompose(r)
       \/ ConcurrentDeliver(r)

SpecConcurrent == InitConcurrent /\ [][NextConcurrent]_vars

\* how many nodes of run r have returned
Completed(r) ==
    LET at == IF runs[r].pc = "raised" THEN runs[r].caller.at ELSE runs[r].pc
    IN  IF at = "idle" THEN 0
        ELSE IF at = "done" THEN Len(StageOrder)
        ELSE (CHOOSE k \in 1..Len(StageOrder) : StageOrder[k] = at) - 1

\* C20: under every interleaving of the two runs, the raw, enriched and
\* ranked records, the summary and the report of a run are what the run
\* computes alone from its own topics, what the sources returned to it and
\* what the model answered to it; the report it returns is its own.
C20_ConcurrentRunsIndependent ==
    \A r \in RunIds :
       LET st == runs[r].state
           topics == ConcurrentTopics[r]
           n == Completed(r)
       IN  /\ st.topics = topics
           /\ n >= 1 => st.raw_articles = Flatten(runs[r].fetched)
           /\ n >= 2 => st.enriched_articles =
                 [k \in 1..Len(st.raw_articles) |-> EnrichArticle(st.raw_articles[k])]
           /\ n >= 3 => st.ranked_articles = RankArticles(st.enriched_articles, topics)
           /\ n >= 4 => st.summary =
                 IF apiKey
                 THEN GenerateLLMSummary(st.ranked_articles, topics,
                                         runs[r].answers.summarize.value)
                 ELSE GenerateFallbackSummary(st.ranked_articles, topics)
           /\ n >= 5 => st.report =
                 IF apiKey
                 THEN ComposeLLMReport(runs[r].answers.compose.value, st.ranked_articles)
                 ELSE GenerateEnhancedBasicReport(st.summary, st.ranked_articles, topics)
           /\ runs[r].pc = "done" =>
                 /\ runs[r].caller.kind = "returned"
                 /\ runs[r].caller.report = st.report

C20_Witness ==
    /\ \A r \in RunIds : runs[r].pc = "done"
    /\ runs[1].state.raw_articles # runs[2].state.raw_articles
    /\ runs[1].state.ranked_articles # <<>>
    /\ runs[2].state.ranked_articles # <<>>
    /\ runs[1].state.report # runs[2].state.report
    /\ db.reports[1].topics = ConcurrentTopics[2]

----------------------------------------------------------------------------
(* Properties of the ingested records *)

\* C21: after Ingest every raw record names the source that produced it and
\* the topic of the run it was fetched for.
C21_RecordsNameTopicAndSource ==
    IngestDone =>
        \A k \in 1..Len(state.raw_articles) :
           LET a == state.raw_articles[k]
           IN  /\ "source" \in DOMAIN a
               /\ \E i \in Sources : a.source = SourceName(i)
               /\ "topic" \in DOMAIN a
               /\ \E t \in 1..Len(state.topics) : a.topic = state.topics[t]

----------------------------------------------------------------------------
(* The API around a run: POST /reports/generate calls run_weekly_intel and *)
(* answers when it is over, GET /reports/{id} reads a report back          *)

\* get_report_by_id with a filter that matches no row
GetReportById_NeverFound(reports, id) == 0

\* get_report_by_id: the row with the id, 0 for None
GetReportById(reports, id) ==
    IF \E k \in 1..Len(reports) : reports[k].id = id
    THEN CHOOSE k \in 1..Len(reports) : reports[k].id = id
    ELSE 0

\* a step of the API: the run is as it ended
ApiStep ==
    UNCHANGED <<apiKey, llm, pc, state, topicIdx, acc, gather, outcomes, results,
                fetched, errorLog, trace, llmCalls, paths, caller, call, runs>>

\* generate_report: the answer after its own store_report call
GenerateReportAnswer(row) == [status |-> 200, report_id |-> row.id]

\* generate_report after run_weekly_intel has returned: the report is stored
\* with the topics of the request and the id of that row is answered; an
\* exception of store_report is answered with status 500
GenerateReportReturn ==
    /\ pc = "done"
    /\ http.post.status = 0
    /\ \E failure \in {"none", "store_report"} :
          LET row == ReportRow(db.reports, caller.report, [topics |-> state.topics])
          IN  IF failure = "none"
              THEN /\ db' = [db EXCEPT !.reports = Append(db.reports, row)]
                   /\ http' = [http EXCEPT !.post = GenerateReportAnswer(row)]
              ELSE /\ http' = [http EXCEPT !.post = [status |-> 500]]
                   /\ UNCHANGED db
    /\ ApiStep

\* generate_report when run_weekly_intel raised: status 500
GenerateReportFailed ==
    /\ pc = "raised"
    /\ http.post.status = 0
    /\ http' = [http EXCEPT !.post = [status |-> 500]]
    /\ UNCHANGED db
    /\ ApiStep

\* get_report for an id, after the POST was answered: 404 for no row, 500 if
\* the query raises, else the row
GetReport(id) ==
    /\ http.post.status # 0
    /\ http.get.status = 0
    /\ \E failure \in {"none", "query"} :
          LET found == GetReportById(db.reports, id)
          IN  http' = [http EXCEPT !.get =
                 IF failure = "query" THEN [status |-> 500, id |-> id]
                 ELSE IF found = 0 THEN [status |-> 404, id |-> id]
                 ELSE [status |-> 200, id |-> id,
                       report_id |-> db.reports[found].id,
                       content |-> db.reports[found].content,
                       topics |-> db.reports[found].topics]]
    /\ UNCHANGED db
    /\ ApiStep

NextApi ==
    \/ Next
    \/ GenerateReportReturn
    \/ GenerateReportFailed
    \/ \E id \in 1..(Len(db.reports) + 1) : GetReport(id)

SpecApi == Init /\ [][NextApi]_vars

\* C22: when POST /reports/generate answered 200 with report_id R, a GET of
\* R is never answered 404: unless the query itself fails it is answered
\* 200 with the report that the run produced.
C22_ReportCanBeReadBack ==
    (http.post.status = 200 /\ http.get.status # 0
        /\ http.get.id = http.post.report_id) =>
       /\ http.get.status # 404
       /\ http.get.status = 200 =>
             /\ http.get.report_id = http.post.report_id
             /\ http.get.content = state.report
             /\ http.get.content = caller.report

C22_Witness ==
    /\ http.post.status = 200
    /\ http.get.status = 200
    /\ http.get.id = http.post.report_id
    /\ state.ranked_articles # <<>>
    /\ http.get.content # <<>>

\* C28: a POST /reports/generate answered 200 has stored exactly one report,
\* and the id it answers is the id of the report that Deliver stored.
C28_OneStoredReportPerRequest ==
    http.post.status = 200 =>
       /\ Len(db.reports) = 1
       /\ http.post.report_id = state.metadata.report_id

\* the record lists of the state
RecordFields == {"raw_articles", "enriched_articles", "ranked_articles"}

\* the fields that the stages before a stage own
EarlierFields(node) ==
    CASE node = "enrich"    -> {"topics", "raw_articles"}
      [] node = "rank"      -> {"topics", "raw_articles", "enriched_articles"}
      [] node = "summarize" -> {"topics"} \cup RecordFields
      [] node = "compose"   -> {"topics", "summary"} \cup RecordFields
      [] node = "deliver"   -> {"topics", "summary", "report"} \cup RecordFields
      [] OTHER              -> {}

\* C23: a step of a stage handler leaves every field of the state that an
\* earlier stage owns as it was, the records in the lists included.
C23_StagesKeepEarlierFields ==
    [][\A f \in EarlierFields(pc) : state'[f] = state[f]]_vars

C23_Witness ==
    /\ pc = "done"
    /\ state.raw_articles # <<>>
    /\ state.enriched_articles # state.raw_articles
    /\ state.ranked_articles # <<>>
    /\ state.ranked_articles # state.enriched_articles
    /\ state.report # <<>>
    /\ "report_id" \in DOMAIN state.metadata

\* C24: within one run no stage handler is invoked twice and no fetch of a
\* (topic, source) pair is attempted twice: the topics are gone through once,
\* the result of a source stands once its task has ended, and a run that
\* raised stays over.
C24_NothingIsRetried ==
    /\ [](\A j, k \in 1..Len(trace) : trace[j] = trace[k] => j = k)
    /\ [](pc = "ingest" => Len(fetched) = topicIdx - 1)
    /\ [][/\ (pc = "ingest" /\ pc' = "ingest") => topicIdx' \in {topicIdx, topicIdx + 1}
          /\ (gather = "running" /\ gather' = "running") =>
                \A i \in Sources :
                   outcomes[i] # PENDING =>
                      outcomes'[i] = outcomes[i] /\ results'[i] = results[i]
          /\ pc = "raised" => pc' = "raised"]_vars

C24_Witness ==
    /\ pc = "raised"
    /\ caller.at = "deliver"
    /\ trace = StageOrder
    /\ Len(state.topics) = MaxTopics
    /\ state.raw_articles # <<>>

\* the (topic, source) fetches that Ingest has issued so far
Issued ==
    IF pc # "ingest" THEN {}
    ELSE LET last == IF gather = "running" THEN topicIdx ELSE topicIdx - 1
         IN  { <<t, i>> : t \in 1..last, i \in Sources }

\* the fetches that have been issued and have not ended
InFlight ==
    IF pc = "ingest" /\ gather = "running"
    THEN { <<topicIdx, i>> : i \in { j \in Sources : results[j] = PENDING } }
    ELSE {}

\* C25: the fetches of all (topic, source) pairs of a run are issued together:
\* while any fetch of the run is in flight, the fetches of every topic of the
\* run have been issued, none waits for the fetches of another topic to end.
C25_AllPairsFetchedConcurrently ==
    InFlight # {} =>
       \A t \in 1..Len(state.topics) : \A i \in Sources : <<t, i>> \in Issued

\* what the sources from the i-th on returned for the current topic, source
\* after source in registration order
RECURSIVE InRegistrationOrder(_)
InRegistrationOrder(i) ==
    IF i > NumSources THEN <<>>
    ELSE (IF i \in Succeeded THEN outcomes[i].value ELSE <<>>)
         \o InRegistrationOrder(i + 1)

\* C26: whatever the order in which the fetches of a topic ended, the list
\* fetch_all_sources returns is the records of the sources in registration
\* order, and the list Ingest writes is these lists in topic order.
C26_MergeIgnoresCompletionOrder ==
    /\ [](FetchAllReturned =>
             /\ \A i \in Sources : outcomes[i] # PENDING
             /\ LastFetched = InRegistrationOrder(1)
             /\ acc = Flatten(fetched))
    /\ [][(pc = "ingest" /\ pc' = "enrich") =>
             /\ Len(fetched) = Len(state.topics)
             /\ state'.raw_articles = Flatten(fetched)]_vars

C26_Witness ==
    /\ FetchAllReturned
    /\ Len(fetched) = 2
    /\ fetched[1] # <<>>
    /\ \E i, j \in Succeeded : i < j /\ outcomes[i].value # <<>> /\ outcomes[j].value # <<>>

----------------------------------------------------------------------------
(* _calculate_quality_score called on one record, whose fields lie on both *)
(* sides of every threshold                                                *)

\* texts of 49 and of 50 characters
Text49 == "Researchers describe a new method for inference.."

Text50 == "Researchers describe a new method for inference..."

QualityInputs ==
    { [title |-> title, content |-> content, score |-> score,
       comments_count |-> comments, source |-> source] :
         title \in {"Ten chars.", "Eleven char"},
         content \in {<<>>, <<Text49>>, <<Text50>>},
         score \in {10, 11},
         comments \in {5, 6},
         source \in {"hackernews", "reddit", "producthunt", "twitter"} }

InitQuality ==
    /\ apiKey = FALSE
    /\ llm = "None"
    /\ pc = "idle"
    /\ state = WeeklyIntelState(<<>>)
    /\ topicIdx = 1
    /\ acc = <<>>
    /\ gather = "idle"
    /\ outcomes = [i \in Sources |-> PENDING]
    /\ results = [i \in Sources |-> PENDING]
    /\ fetched = <<>>
    /\ errorLog = EmptyBag
    /\ trace = <<>>
    /\ llmCalls = 0
    /\ paths = EmptyDict
    /\ db = [reports |-> <<>>, articles |-> <<>>]
    /\ caller = [kind |-> "none"]
    /\ \E a \in QualityInputs : call = [NoCall EXCEPT !.input = <<a>>]
    /\ runs = NoRuns
    /\ http = NoExchange

\* ContentProcessor._calculate_quality_score(article)
QualityScoreCall ==
    /\ call.fn = "none"
    /\ LibraryCall("quality_score", call.input, <<>>,
                   <<CalculateQualityScore(call.input[1])>>)
    /\ UNCHANGED db

NextQuality == QualityScoreCall

SpecQuality == InitQuality /\ [][NextQuality]_vars

\* the bonuses of the quality score that a record earns, in units of One
QualityBonuses(a) ==
    << IF Len(a.title) > 10 THEN 2000 ELSE 0,
       IF Len(ContentText(a.content)) >= 50 THEN 3000 ELSE 0,
       IF a.score > 10 THEN 2000 ELSE 0,
       IF a.comments_count > 5 THEN 2000 ELSE 0,
       IF a.source \in {"hackernews", "reddit", "producthunt"} THEN 1000 ELSE 0 >>

\* C27: the quality score of a record is the sum of the bonuses it earns,
\* capped at 1.0; it lies between 0 and 1.0 and is 1.0 only for a record that
\* earns all five.
C27_QualityScoreIsCappedSum ==
    call.fn = "quality_score" =>
       LET b == QualityBonuses(call.input[1])
           sum == b[1] + b[2] + b[3] + b[4] + b[5]
           q == call.output[1]
       IN  /\ q = IF sum > One THEN One ELSE sum
           /\ q >= 0 /\ q <= One
           /\ q = One => \A j \in 1..5 : b[j] > 0

C27_Witness ==
    /\ call.fn = "quality_score"
    /\ call.output[1] = One
    /\ call.input[1].content = <<Text50>>

\* C29: when store_articles has returned, every id of the returned list is
\* the id of a row of the committed table, and every article that was stored
\* without an error, before or after one that failed, has its row there.
C29_StoreFailureIsIsolated ==
    call.fn = "store_articles" =>
       /\ \A j \in 1..Len(call.output) :
             \E r \in 1..Len(db.articles) : db.articles[r].id = call.output[j]
       /\ \A k \in 1..Len(call.input) :
             CanInsert(call.input[k]) =>
                \E r \in 1..Len(db.articles) : db.articles[r].url = call.input[k].url

\* C30: Summarize and Compose of a run decide alike on the client: after a
\* fallback summary Compose makes no call and writes the basic report, after
\* a summary of the model Compose calls the model; and a client, once
\* created, is kept as it is.
C30_SummarizeAndComposeSamePath ==
    /\ []({"summarize", "compose"} \subseteq DOMAIN paths =>
             paths.summarize = paths.compose)
    /\ [][llm # "None" => llm' = llm]_vars
    /\ [][(pc = "compose" /\ ~paths.summarize) =>
             /\ llmCalls' = llmCalls
             /\ pc' = "deliver"
             /\ state'.report = GenerateEnhancedBasicReport(
                                   state.summary, state.ranked_articles, state.topics)]_vars
    /\ [][(pc = "compose" /\ paths.summarize) => llmCalls' = llmCalls + 1]_vars

C30_Witness ==
    /\ pc = "done"
    /\ paths.summarize /\ paths.compose
    /\ llm = "ChatOpenAI"
    /\ llmCalls > 1
    /\ state.ranked_articles # <<>>

====
